---- MODULE Spec2Model ----
(***************************************************************************)
(* Model of deployment/lower_einsum_to_batched_matmul.py (the Einsum       *)
(* lowering pass), of the graph evaluation the tests run on its output,    *)
(* and of the input-shape resolution of deployment/compare_cpu_dml.py.     *)
(*                                                                         *)
(* Names are real strings: the prefix f'lower_{idx}_{abs(id(node)) %       *)
(* 1000000}_' is built with string concatenation and decimal formatting.   *)
(* A node is a record op_type / input / output / name / attribute, an      *)
(* attribute a record name / s / ints / t_name / t_dims / t_vals (the      *)
(* last three hold a tensor-valued attribute, as of a Constant node).      *)
(* A tensor value is a record shape / data, data in row-major order.       *)
(***************************************************************************)
EXTENDS Integers, Sequences, FiniteSets, TLC

VARIABLES
    graph_node,   \* graph.node: the node list of the model's graph
    nodes,        \* the local list `nodes` of lower_einsum (copy of graph.node)
    new_nodes,    \* the local list `new_nodes`
    idx,          \* the local counter `idx`
    i,            \* position of the for loop in `nodes` (1-based)
    pc,           \* "idle" | "loop" | "done" | "error" | "running" | "ran"
    calls,        \* number of calls of lower_einsum made so far
    lowered,      \* history: one record per lowered node of the current call
    addresses,    \* the addresses id(node) can take in this process
    feeds,        \* the tensors fed to the session: name -> tensor
    env,          \* tensors computed so far by the session, as <<name, tensor>> pairs
    run_i,        \* position of the session in graph.node (1-based)
    raw_shape,    \* comparator: inp.shape, the declared shape
    size,         \* comparator: args.size
    shape,        \* comparator: the list `shape`
    ci,           \* comparator: position of the enumerate loop (0-based)
    cpc           \* comparator: "off" | "dims" | "pad" | "done"

lowerVars == <<graph_node, nodes, new_nodes, idx, i, pc, calls, lowered, addresses>>
runVars == <<feeds, env, run_i>>
cmpVars == <<raw_shape, size, shape, ci, cpc>>
vars == <<graph_node, nodes, new_nodes, idx, i, pc, calls, lowered, addresses,
          feeds, env, run_i, raw_shape, size, shape, ci, cpc>>

(***************************************************************************)
(* Bounds of the model.                                                    *)
(***************************************************************************)
MaxNodes == 2
MaxCalls == 2

(***************************************************************************)
(* Program constants.                                                      *)
(***************************************************************************)
E1 == "hbwpc,hbwqc->hbwpq"
E2 == "hbwij,hbwjc->hbwic"
IdMod == 1000000

\* id(node): the addresses the node objects of one call may have. Live objects
\* have distinct addresses; two of these share a residue modulo IdMod.
ObjectIds == {7, IdMod + 7, IdMod + 8}

(***************************************************************************)
(* Nodes and attributes (onnx.helper.make_node / make_tensor).             *)
(***************************************************************************)
AttrS(n, s) ==
    [name |-> n, s |-> s, ints |-> <<>>, t_name |-> "", t_dims |-> <<>>, t_vals |-> <<>>]

AttrInts(n, v) ==
    [name |-> n, s |-> "", ints |-> v, t_name |-> "", t_dims |-> <<>>, t_vals |-> <<>>]

AttrTensor(n, tname, dims, vals) ==
    [name |-> n, s |-> "", ints |-> <<>>, t_name |-> tname, t_dims |-> dims, t_vals |-> vals]

MakeNode(op, ins, outs, nm, attrs) ==
    [op_type |-> op, input |-> ins, output |-> outs, name |-> nm, attribute |-> attrs]

\* helper.make_node('Constant', [], [out], value=make_tensor(out+'_val', INT64, [1], [v]), name=out+'_const')
ConstNode(out, v) ==
    MakeNode("Constant", <<>>, <<out>>, out \o "_const",
             <<AttrTensor("value", out \o "_val", <<1>>, <<v>>)>>)

(***************************************************************************)
(* Pattern matching, lines 27-32.                                          *)
(***************************************************************************)
\* The loop over node.attribute: the last attribute named 'equation' wins;
\* <<>> stands for None.
EquationOf(node) ==
    LET attrs == node.attribute
        F[k \in 0..Len(attrs)] ==
            IF k = 0 THEN <<>>
            ELSE IF attrs[k].name = "equation" THEN <<attrs[k].s>>
            ELSE F[k - 1]
    IN F[Len(attrs)]

Matches(node) ==
    /\ node.op_type = "Einsum"
    /\ (EquationOf(node) = <<E1>> \/ EquationOf(node) = <<E2>>)

(***************************************************************************)
(* The unique prefix, line 38.                                             *)
(***************************************************************************)
\* Variant without the per-call counter.
PrefixNoCounter(k, id) == "lower_" \o ToString(id % IdMod) \o "_"

Prefix(k, id) == "lower_" \o ToString(k) \o "_" \o ToString(id % IdMod) \o "_"

(***************************************************************************)
(* The equation-specific index table, lines 65-68: <<p_val, q_val, c_val>>.*)
(***************************************************************************)
\* Variant with one table for both equations.
IndexTableSame(eq) == <<3, 3, 4>>

IndexTable(eq) == IF eq = E1 THEN <<3, 3, 4>> ELSE <<3, 4, 4>>

(***************************************************************************)
(* The source of q, lines 83-88: shapeB for E1, shapeA otherwise.          *)
(***************************************************************************)
QSource(eq, shapeA, shapeB) == IF eq = E1 THEN shapeB ELSE shapeA

(***************************************************************************)
(* The replacement sequence of one matched node, lines 34-151, in the      *)
(* order of the new_nodes.append calls.                                    *)
(***************************************************************************)
ShapeNodes(a_in, b_in, eq, prefix) ==
    LET shapeA == prefix \o "shapeA"
        shapeB == prefix \o "shapeB"
        starts == prefix \o "starts"
        ends == prefix \o "ends"
        axes == prefix \o "axes"
        batch_shape == prefix \o "batch_shape"
        batch_prod == prefix \o "batch_prod"
        tab == IndexTable(eq)
        idx_p == prefix \o "p_idx"
        idx_q == prefix \o "q_idx"
        idx_c == prefix \o "c_idx"
        p == prefix \o "p"
        q == prefix \o "q"
        c == prefix \o "c"
        squeeze_axis_const == prefix \o "squeeze_axes"
        p_s == prefix \o "p_s"
        q_s == prefix \o "q_s"
        c_s == prefix \o "c_s"
        us_axes == prefix \o "us_axes"
        p1 == prefix \o "p1"
        q1 == prefix \o "q1"
        c1 == prefix \o "c1"
        bp1 == prefix \o "bp1"
        concat_axes == prefix \o "concat_axis"
    IN << MakeNode("Shape", <<a_in>>, <<shapeA>>, prefix \o "shapeA", <<>>),
          MakeNode("Shape", <<b_in>>, <<shapeB>>, prefix \o "shapeB", <<>>),
          ConstNode(starts, 0),
          ConstNode(ends, 3),
          ConstNode(axes, 0),
          MakeNode("Slice", <<shapeA, starts, ends, axes>>, <<batch_shape>>,
                   prefix \o "batch_slice", <<>>),
          MakeNode("ReduceProd", <<batch_shape>>, <<batch_prod>>,
                   prefix \o "batch_prod", <<AttrInts("keepdims", <<0>>)>>),
          ConstNode(idx_p, tab[1]),
          ConstNode(idx_q, tab[2]),
          ConstNode(idx_c, tab[3]),
          MakeNode("Gather", <<shapeA, idx_p>>, <<p>>, prefix \o "gather_p",
                   <<AttrInts("axis", <<0>>)>>),
          MakeNode("Gather", <<QSource(eq, shapeA, shapeB), idx_q>>, <<q>>,
                   prefix \o "gather_q", <<AttrInts("axis", <<0>>)>>),
          MakeNode("Gather", <<shapeB, idx_c>>, <<c>>, prefix \o "gather_c",
                   <<AttrInts("axis", <<0>>)>>),
          ConstNode(squeeze_axis_const, 0),
          MakeNode("Squeeze", <<p, squeeze_axis_const>>, <<p_s>>, prefix \o "squeeze_p", <<>>),
          MakeNode("Squeeze", <<q, squeeze_axis_const>>, <<q_s>>, prefix \o "squeeze_q", <<>>),
          MakeNode("Squeeze", <<c, squeeze_axis_const>>, <<c_s>>, prefix \o "squeeze_c", <<>>),
          ConstNode(us_axes, 0),
          MakeNode("Unsqueeze", <<p_s, us_axes>>, <<p1>>, prefix \o "unsq_p", <<>>),
          MakeNode("Unsqueeze", <<q_s, us_axes>>, <<q1>>, prefix \o "unsq_q", <<>>),
          MakeNode("Unsqueeze", <<c_s, us_axes>>, <<c1>>, prefix \o "unsq_c", <<>>),
          MakeNode("Unsqueeze", <<batch_prod, us_axes>>, <<bp1>>,
                   prefix \o "unsq_batchprod", <<>>),
          ConstNode(concat_axes, 0) >>

\* Variant of lines 123-136 without the Transpose of B.
TailE1NoTranspose(a_in, b_in, prefix) ==
    LET bp1 == prefix \o "bp1"
        p1 == prefix \o "p1"
        q1 == prefix \o "q1"
        c1 == prefix \o "c1"
        newshapeA == prefix \o "shapeA_3d"
        newshapeB == prefix \o "shapeB_3d"
        a_r == prefix \o "a_3d"
        b_r == prefix \o "b_3d"
        mm == prefix \o "matmul"
        newshape_out == prefix \o "shape_out"
    IN << MakeNode("Concat", <<bp1, p1, c1>>, <<newshapeA>>, prefix \o "concat_shapeA",
                   <<AttrInts("axis", <<0>>)>>),
          MakeNode("Concat", <<bp1, q1, c1>>, <<newshapeB>>, prefix \o "concat_shapeB",
                   <<AttrInts("axis", <<0>>)>>),
          MakeNode("Reshape", <<a_in, newshapeA>>, <<a_r>>, prefix \o "reshape_a", <<>>),
          MakeNode("Reshape", <<b_in, newshapeB>>, <<b_r>>, prefix \o "reshape_b", <<>>),
          MakeNode("MatMul", <<a_r, b_r>>, <<mm>>, prefix \o "matmul", <<>>),
          MakeNode("Concat", <<prefix \o "batch_shape", p1, q1>>, <<newshape_out>>,
                   prefix \o "concat_out", <<AttrInts("axis", <<0>>)>>) >>

\* Lines 123-136: A -> [batch,p,c], B -> [batch,q,c], transpose B, MatMul.
TailE1(a_in, b_in, prefix) ==
    LET bp1 == prefix \o "bp1"
        p1 == prefix \o "p1"
        q1 == prefix \o "q1"
        c1 == prefix \o "c1"
        newshapeA == prefix \o "shapeA_3d"
        newshapeB == prefix \o "shapeB_3d"
        a_r == prefix \o "a_3d"
        b_r == prefix \o "b_3d"
        mm == prefix \o "matmul"
        newshape_out == prefix \o "shape_out"
        b_t == prefix \o "b_trans"
    IN << MakeNode("Concat", <<bp1, p1, c1>>, <<newshapeA>>, prefix \o "concat_shapeA",
                   <<AttrInts("axis", <<0>>)>>),
          MakeNode("Concat", <<bp1, q1, c1>>, <<newshapeB>>, prefix \o "concat_shapeB",
                   <<AttrInts("axis", <<0>>)>>),
          MakeNode("Reshape", <<a_in, newshapeA>>, <<a_r>>, prefix \o "reshape_a", <<>>),
          MakeNode("Reshape", <<b_in, newshapeB>>, <<b_r>>, prefix \o "reshape_b", <<>>),
          MakeNode("Transpose", <<b_r>>, <<b_t>>, prefix \o "transpose_b",
                   <<AttrInts("perm", <<0, 2, 1>>)>>),
          MakeNode("MatMul", <<a_r, b_t>>, <<mm>>, prefix \o "matmul", <<>>),
          MakeNode("Concat", <<prefix \o "batch_shape", p1, q1>>, <<newshape_out>>,
                   prefix \o "concat_out", <<AttrInts("axis", <<0>>)>>) >>

\* Lines 137-148: A -> [batch,p,q], B -> [batch,q,c], MatMul.
TailE2(a_in, b_in, prefix) ==
    LET bp1 == prefix \o "bp1"
        p1 == prefix \o "p1"
        q1 == prefix \o "q1"
        c1 == prefix \o "c1"
        newshapeA == prefix \o "shapeA_3d"
        newshapeB == prefix \o "shapeB_3d"
        a_r == prefix \o "a_3d"
        b_r == prefix \o "b_3d"
        mm == prefix \o "matmul"
        newshape_out == prefix \o "shape_out"
    IN << MakeNode("Concat", <<bp1, p1, q1>>, <<newshapeA>>, prefix \o "concat_shapeA",
                   <<AttrInts("axis", <<0>>)>>),
          MakeNode("Concat", <<bp1, q1, c1>>, <<newshapeB>>, prefix \o "concat_shapeB",
                   <<AttrInts("axis", <<0>>)>>),
          MakeNode("Reshape", <<a_in, newshapeA>>, <<a_r>>, prefix \o "reshape_a", <<>>),
          MakeNode("Reshape", <<b_in, newshapeB>>, <<b_r>>, prefix \o "reshape_b", <<>>),
          MakeNode("MatMul", <<a_r, b_r>>, <<mm>>, prefix \o "matmul", <<>>),
          MakeNode("Concat", <<prefix \o "batch_shape", p1, c1>>, <<newshape_out>>,
                   prefix \o "concat_out", <<AttrInts("axis", <<0>>)>>) >>

\* Variant binding the result to a fresh name instead of the original output.
ReshapeOutRenamed(out, prefix) ==
    MakeNode("Reshape", <<prefix \o "matmul", prefix \o "shape_out">>, <<prefix \o "out">>,
             prefix \o "reshape_out", <<>>)

\* Line 151: reshape back, bound to the original output name.
ReshapeOut(out, prefix) ==
    MakeNode("Reshape", <<prefix \o "matmul", prefix \o "shape_out">>, <<out>>,
             prefix \o "reshape_out", <<>>)

Replacement(node, k, id) ==
    LET a_in == node.input[1]
        b_in == node.input[2]
        out == node.output[1]
        eq == EquationOf(node)[1]
        prefix == Prefix(k, id)
    IN ShapeNodes(a_in, b_in, eq, prefix)
       \o (IF eq = E1 THEN TailE1(a_in, b_in, prefix) ELSE TailE2(a_in, b_in, prefix))
       \o <<ReshapeOut(out, prefix)>>

(***************************************************************************)
(* The graphs given to the pass: node lists over a pool holding both       *)
(* supported equations, an unsupported equation, an Einsum without an      *)
(* equation, other operators, Einsum nodes with a wrong number of inputs   *)
(* or outputs, and a node left by an earlier lowering run.                 *)
(***************************************************************************)
GraphInputs == {"A", "B"}

EinsumNode(ins, outs, nm, eq) == MakeNode("Einsum", ins, outs, nm, <<AttrS("equation", eq)>>)

NodePool ==
    { MakeNode("Relu", <<"A">>, <<"T">>, "relu", <<>>),
      MakeNode("Relu", <<"Y">>, <<"U">>, "relu_y", <<>>),
      MakeNode("Relu", <<"X2">>, <<"U2">>, "relu_x2", <<>>),
      EinsumNode(<<"A", "B">>, <<"Y">>, "einsum", E1),
      EinsumNode(<<"T", "B">>, <<"Z">>, "einsum_2", E2),
      EinsumNode(<<"A", "B">>, <<"W">>, "einsum_3", "ij,jk->ik"),
      MakeNode("Einsum", <<"A", "B">>, <<"V">>, "einsum_4", <<>>),
      EinsumNode(<<"A", "B", "A">>, <<"X", "X2">>, "einsum_5", E1),
      EinsumNode(<<"A">>, <<"X1">>, "einsum_6", E2),
      MakeNode("Shape", <<"A">>, <<"lower_0_7_shapeA">>, "lower_0_7_shapeA", <<>>) }

InputGraphs == UNION { [1..n -> NodePool] : n \in 0..MaxNodes }

(***************************************************************************)
(* lower_einsum, lines 21-161, one action per loop iteration.              *)
(***************************************************************************)
\* Lines 22-25 (and 170-171: each run of the tool calls it once on the graph
\* it loaded, which may be the graph an earlier run wrote).
CallLowerEinsum ==
    /\ pc \in {"idle", "done"}
    /\ calls < MaxCalls
    /\ nodes' = graph_node
    /\ new_nodes' = <<>>
    /\ idx' = 0
    /\ i' = 1
    /\ lowered' = <<>>
    /\ calls' = calls + 1
    /\ pc' = "loop"
    /\ UNCHANGED graph_node

\* Variant of the default branch that drops the node.
KeepNodeDropped ==
    /\ pc = "loop"
    /\ i <= Len(nodes)
    /\ ~Matches(nodes[i])
    /\ i' = i + 1
    /\ UNCHANGED <<new_nodes, graph_node, nodes, idx, pc, calls, lowered>>

\* Lines 26-32 and 155-156: the default branch keeps the node.
KeepNode ==
    /\ pc = "loop"
    /\ i <= Len(nodes)
    /\ ~Matches(nodes[i])
    /\ new_nodes' = Append(new_nodes, nodes[i])
    /\ i' = i + 1
    /\ UNCHANGED <<graph_node, nodes, idx, pc, calls, lowered>>

\* Variant without the `continue` of line 154: the matched node is kept too.
LowerNodeNoContinue ==
    /\ pc = "loop"
    /\ i <= Len(nodes)
    /\ Matches(nodes[i])
    /\ Len(nodes[i].input) >= 2
    /\ Len(nodes[i].output) >= 1
    /\ \E id \in addresses \ { lowered[k].id : k \in 1..Len(lowered) } :
          LET repl == Replacement(nodes[i], idx, id) IN
          /\ new_nodes' = (new_nodes \o repl) \o <<nodes[i]>>
          /\ lowered' = Append(lowered,
                 [at |-> i, start |-> Len(new_nodes) + 1, len |-> Len(repl),
                  idx |-> idx, id |-> id])
    /\ idx' = idx + 1
    /\ i' = i + 1
    /\ UNCHANGED <<graph_node, nodes, pc, calls>>

\* Variant inserting the replacement at the front of new_nodes.
LowerNodeAtFront ==
    /\ pc = "loop"
    /\ i <= Len(nodes)
    /\ Matches(nodes[i])
    /\ Len(nodes[i].input) >= 2
    /\ Len(nodes[i].output) >= 1
    /\ \E id \in addresses \ { lowered[k].id : k \in 1..Len(lowered) } :
          LET repl == Replacement(nodes[i], idx, id) IN
          /\ new_nodes' = repl \o new_nodes
          /\ lowered' = Append(lowered,
                 [at |-> i, start |-> Len(new_nodes) + 1, len |-> Len(repl),
                  idx |-> idx, id |-> id])
    /\ idx' = idx + 1
    /\ i' = i + 1
    /\ UNCHANGED <<graph_node, nodes, pc, calls>>

\* Lines 32-154: a matched node with two inputs and an output is lowered.
LowerNode ==
    /\ pc = "loop"
    /\ i <= Len(nodes)
    /\ Matches(nodes[i])
    /\ Len(nodes[i].input) >= 2
    /\ Len(nodes[i].output) >= 1
    /\ \E id \in addresses \ { lowered[k].id : k \in 1..Len(lowered) } :
          LET repl == Replacement(nodes[i], idx, id) IN
          /\ new_nodes' = new_nodes \o repl
          /\ lowered' = Append(lowered,
                 [at |-> i, start |-> Len(new_nodes) + 1, len |-> Len(repl),
                  idx |-> idx, id |-> id])
    /\ idx' = idx + 1
    /\ i' = i + 1
    /\ UNCHANGED <<graph_node, nodes, pc, calls>>

\* Lines 34-36: node.input[0], node.input[1], node.output[0] raise IndexError
\* when the matched node has fewer than two inputs or no output.
RaiseIndexError ==
    /\ pc = "loop"
    /\ i <= Len(nodes)
    /\ Matches(nodes[i])
    /\ (Len(nodes[i].input) < 2 \/ Len(nodes[i].output) < 1)
    /\ pc' = "error"
    /\ UNCHANGED <<graph_node, nodes, new_nodes, idx, i, calls, lowered>>

\* Lines 158-161: the graph's node list is replaced wholesale.
ReplaceGraphNodes ==
    /\ pc = "loop"
    /\ i > Len(nodes)
    /\ graph_node' = new_nodes
    /\ pc' = "done"
    /\ UNCHANGED <<nodes, new_nodes, idx, i, calls, lowered>>

Init ==
    /\ graph_node \in InputGraphs
    /\ nodes = <<>>
    /\ new_nodes = <<>>
    /\ idx = 0
    /\ i = 1
    /\ pc = "idle"
    /\ calls = 0
    /\ lowered = <<>>
    /\ addresses = ObjectIds
    /\ feeds = <<>>
    /\ env = <<>>
    /\ run_i = 1
    /\ raw_shape = <<>>
    /\ size = 0
    /\ shape = <<>>
    /\ ci = 0
    /\ cpc = "off"

Next ==
    \/ CallLowerEinsum /\ UNCHANGED <<addresses, runVars, cmpVars>>
    \/ KeepNode /\ UNCHANGED <<addresses, runVars, cmpVars>>
    \/ LowerNode /\ UNCHANGED <<addresses, runVars, cmpVars>>
    \/ RaiseIndexError /\ UNCHANGED <<addresses, runVars, cmpVars>>
    \/ ReplaceGraphNodes /\ UNCHANGED <<addresses, runVars, cmpVars>>

Spec == Init /\ [][Next]_vars

(***************************************************************************)
(* The operators the replacement sequence is built from, as the runtime    *)
(* session evaluates them on concrete tensors.  Bad is a failed node.      *)
(***************************************************************************)
Bad == [shape |-> <<-1>>, data |-> <<>>]

Range(s) == { s[k] : k \in 1..Len(s) }

RECURSIVE Prod(_)
Prod(s) == IF s = <<>> THEN 1 ELSE Head(s) * Prod(Tail(s))

\* Row-major offset of the 0-based multi-index m in a tensor of shape sh.
Ravel(m, sh) ==
    LET F[k \in 0..Len(sh)] == IF k = 0 THEN 0 ELSE F[k - 1] * sh[k] + m[k]
    IN F[Len(sh)]

\* The 0-based multi-index of row-major offset f in a tensor of shape sh.
Unravel(f, sh) ==
    [k \in 1..Len(sh) |-> (f \div Prod(SubSeq(sh, k + 1, Len(sh)))) % sh[k]]

OpShape(x) == [shape |-> <<Len(x.shape)>>, data |-> x.shape]

OpConstant(n) == [shape |-> n.attribute[1].t_dims, data |-> n.attribute[1].t_vals]

\* Slice of a 1-D tensor along axis 0, ends clamped to the length.
OpSlice(x, starts, ends, axes) ==
    IF Len(x.shape) # 1 \/ axes.data # <<0>> THEN Bad
    ELSE LET lo == starts.data[1]
             hi == IF ends.data[1] > x.shape[1] THEN x.shape[1] ELSE ends.data[1]
         IN IF lo < 0 \/ hi < lo THEN Bad
            ELSE [shape |-> <<hi - lo>>, data |-> SubSeq(x.data, lo + 1, hi)]

\* ReduceProd over all axes, keepdims=0: a rank-0 tensor.
OpReduceProd(x) == [shape |-> <<>>, data |-> <<Prod(x.data)>>]

\* Gather on axis 0 of a 1-D tensor: the output has the shape of the indices.
OpGather(x, ind) ==
    IF Len(x.shape) # 1 \/ \E k \in 1..Len(ind.data) : ind.data[k] \notin 0..(x.shape[1] - 1)
    THEN Bad
    ELSE [shape |-> ind.shape, data |-> [k \in 1..Len(ind.data) |-> x.data[ind.data[k] + 1]]]

\* Squeeze with axes [0]: axis 0 must have extent 1.
OpSqueeze(x, axes) ==
    IF axes.data # <<0>> \/ x.shape = <<>> \/ Head(x.shape) # 1 THEN Bad
    ELSE [shape |-> Tail(x.shape), data |-> x.data]

\* Unsqueeze with axes [0].
OpUnsqueeze(x, axes) ==
    IF axes.data # <<0>> THEN Bad
    ELSE [shape |-> <<1>> \o x.shape, data |-> x.data]

\* Concat on axis 0 of 1-D tensors.
RECURSIVE ConcatData(_)
ConcatData(xs) == IF xs = <<>> THEN <<>> ELSE Head(xs).data \o ConcatData(Tail(xs))

OpConcat(xs) ==
    IF \E k \in 1..Len(xs) : Len(xs[k].shape) # 1 THEN Bad
    ELSE LET d == ConcatData(xs) IN [shape |-> <<Len(d)>>, data |-> d]

\* Reshape to the shape held by the second input; the element count must agree.
OpReshape(x, sh) ==
    IF Len(sh.shape) # 1 \/ (\E k \in 1..Len(sh.data) : sh.data[k] < 1)
       \/ Prod(sh.data) # Len(x.data)
    THEN Bad
    ELSE [shape |-> sh.data, data |-> x.data]

\* Transpose: output axis k is input axis perm[k].
OpTranspose(x, perm) ==
    IF Len(perm) # Len(x.shape) THEN Bad
    ELSE LET n == Len(perm)
             osh == [k \in 1..n |-> x.shape[perm[k] + 1]]
             src(o) == [d \in 1..n |-> o[CHOOSE k \in 1..n : perm[k] + 1 = d]]
         IN [shape |-> osh,
             data |-> [f \in 1..Len(x.data) |->
                          x.data[Ravel(src(Unravel(f - 1, osh)), x.shape) + 1]]]

\* MatMul of [batch, m, k] by [batch, k, n].
OpMatMul(a, b) ==
    IF Len(a.shape) # 3 \/ Len(b.shape) # 3 THEN Bad
    ELSE IF a.shape[1] # b.shape[1] \/ a.shape[3] # b.shape[2] THEN Bad
    ELSE LET osh == <<a.shape[1], a.shape[2], b.shape[3]>>
             K == a.shape[3]
             Dot(o) ==
                 LET S[k \in 0..K] ==
                         IF k = 0 THEN 0
                         ELSE S[k - 1]
                              + a.data[Ravel(<<o[1], o[2], k - 1>>, a.shape) + 1]
                                * b.data[Ravel(<<o[1], k - 1, o[3]>>, b.shape) + 1]
                 IN S[K]
         IN [shape |-> osh,
             data |-> [f \in 1..Prod(osh) |-> Dot(Unravel(f - 1, osh))]]

AttrNamed(n, nm) == CHOOSE a \in Range(n.attribute) : a.name = nm

\* One node evaluated on the tensors computed so far.
EvalNode(n, e) ==
    LET in(k) == IF n.input[k] \in DOMAIN e THEN e[n.input[k]] ELSE Bad
        ins == [k \in 1..Len(n.input) |-> in(k)]
    IN IF \E k \in 1..Len(ins) : ins[k] = Bad THEN Bad
       ELSE CASE n.op_type = "Shape" -> OpShape(ins[1])
              [] n.op_type = "Constant" -> OpConstant(n)
              [] n.op_type = "Slice" -> OpSlice(ins[1], ins[2], ins[3], ins[4])
              [] n.op_type = "ReduceProd" -> OpReduceProd(ins[1])
              [] n.op_type = "Gather" -> OpGather(ins[1], ins[2])
              [] n.op_type = "Squeeze" -> OpSqueeze(ins[1], ins[2])
              [] n.op_type = "Unsqueeze" -> OpUnsqueeze(ins[1], ins[2])
              [] n.op_type = "Concat" -> OpConcat(ins)
              [] n.op_type = "Reshape" -> OpReshape(ins[1], ins[2])
              [] n.op_type = "Transpose" -> OpTranspose(ins[1], AttrNamed(n, "perm").ints)
              [] n.op_type = "MatMul" -> OpMatMul(ins[1], ins[2])
              [] OTHER -> Bad

(***************************************************************************)
(* The test's run_inference (tests/test_lower_einsum.py, lines 23-35): a   *)
(* session evaluates the nodes of the rewritten graph in list order on the *)
(* fed tensors.                                                            *)
(***************************************************************************)
MaxBatch == 2
MaxExtent == 2

\* Deterministic element values, distinct enough to tell permutations apart.
Fill(sh, seed) == [shape |-> sh, data |-> [k \in 1..Prod(sh) |-> ((k * k + seed * k) % 7) - 3]]

FillSeeds == {<<1, 2>>, <<3, 5>>}

\* make_model (tests, lines 12-20): the shapes of A and B for an equation.
ShapeOfA(eq, d) == IF eq = E1 THEN <<d[1], d[2], d[3], d[4], d[6]>>
                   ELSE <<d[1], d[2], d[3], d[4], d[5]>>

ShapeOfB(eq, d) == <<d[1], d[2], d[3], d[5], d[6]>>

\* <<h, b, w, p, q, c>>: a box of small extents and the two cases of the tests.
EvalDims ==
    { <<h, b, w, p, q, c>> : h \in 1..MaxBatch, b \in 1..MaxBatch, w \in 1..MaxBatch,
                             p \in 1..MaxExtent, q \in 1..MaxExtent, c \in 1..MaxExtent }
    \cup { <<1, 1, 2, 3, 4, 2>>, <<1, 1, 2, 3, 2, 4>> }

\* sess.run(None, {'A': A, 'B': B}), line 33.
StartSession ==
    /\ pc = "done"
    /\ feeds # <<>>
    /\ env' = feeds
    /\ run_i' = 1
    /\ pc' = "running"
    /\ UNCHANGED <<graph_node, nodes, new_nodes, idx, i, calls, lowered, addresses, feeds>>

RunNode ==
    /\ pc = "running"
    /\ run_i <= Len(graph_node)
    /\ LET n == graph_node[run_i] IN
          env' = [x \in DOMAIN env \cup {n.output[1]} |->
                     IF x = n.output[1] THEN EvalNode(n, env) ELSE env[x]]
    /\ run_i' = run_i + 1
    /\ UNCHANGED <<graph_node, nodes, new_nodes, idx, i, pc, calls, lowered, addresses, feeds>>

FinishRun ==
    /\ pc = "running"
    /\ run_i > Len(graph_node)
    /\ pc' = "ran"
    /\ UNCHANGED <<graph_node, nodes, new_nodes, idx, i, calls, lowered, addresses, runVars>>

\* The state in which lower_einsum enters its loop (lines 22-25) on the
\* test's model: one Einsum node over A and B.
InitEval ==
    /\ \E eq \in {E1, E2}, d \in EvalDims :
          /\ graph_node = <<EinsumNode(<<"A", "B">>, <<"Y">>, "einsum", eq)>>
          /\ \E seeds \in FillSeeds :
                feeds = [x \in {"A", "B"} |->
                            IF x = "A" THEN Fill(ShapeOfA(eq, d), seeds[1])
                            ELSE Fill(ShapeOfB(eq, d), seeds[2])]
    /\ nodes = graph_node
    /\ new_nodes = <<>>
    /\ idx = 0
    /\ i = 1
    /\ pc = "loop"
    /\ calls = 1
    /\ lowered = <<>>
    /\ addresses = {7}
    /\ env = <<>>
    /\ run_i = 1
    /\ raw_shape = <<>>
    /\ size = 0
    /\ shape = <<>>
    /\ ci = 0
    /\ cpc = "off"

NextEval ==
    \/ LowerNode /\ UNCHANGED <<addresses, runVars, cmpVars>>
    \/ ReplaceGraphNodes /\ UNCHANGED <<addresses, runVars, cmpVars>>
    \/ StartSession /\ UNCHANGED cmpVars
    \/ RunNode /\ UNCHANGED cmpVars
    \/ FinishRun /\ UNCHANGED cmpVars

SpecEval == InitEval /\ [][NextEval]_vars


(***************************************************************************)
(* compare_cpu_dml.py, lines 23-39: the concrete input shape.  A declared  *)
(* dimension is an int or symbolic (a string or None): Sym below.          *)
(***************************************************************************)
MaxRank == 4

Sym == [int |-> FALSE, v |-> 0]

IntDim(n) == [int |-> TRUE, v |-> n]

DeclaredDims == {Sym, IntDim(3), IntDim(5)}

DeclaredShapes == UNION { [1..n -> DeclaredDims] : n \in 0..MaxRank }

SizeChoices == {-1, 0, 64}

\* Variant without the default of 256.
ResolvedDimNoDefault(k, s, sz) ==
    IF s.int THEN s.v
    ELSE IF k = 0 THEN 1
    ELSE IF k = 1 THEN 3
    ELSE sz

\* Lines 27-35: the value appended for dimension s at 0-based axis k.
ResolvedDim(k, s, sz) ==
    IF s.int THEN s.v
    ELSE IF k = 0 THEN 1
    ELSE IF k = 1 THEN 3
    ELSE (IF sz > 0 THEN sz ELSE 256)

\* Lines 26-35: one iteration of the enumerate loop.
ResolveDim ==
    /\ cpc = "shape"
    /\ ci < Len(raw_shape)
    /\ shape' = Append(shape, ResolvedDim(ci, raw_shape[ci + 1], size))
    /\ ci' = ci + 1
    /\ UNCHANGED <<raw_shape, size, cpc>>

\* Lines 36-37: while len(shape) < 4: shape.append(args.size).
PadShape ==
    /\ cpc = "shape"
    /\ ci = Len(raw_shape)
    /\ Len(shape) < 4
    /\ shape' = Append(shape, size)
    /\ UNCHANGED <<raw_shape, size, ci, cpc>>

\* Line 39: the shape is final; it is printed and used for the random input.
PrintShape ==
    /\ cpc = "shape"
    /\ ci = Len(raw_shape)
    /\ Len(shape) >= 4
    /\ cpc' = "done"
    /\ UNCHANGED <<raw_shape, size, shape, ci>>

InitCmp ==
    /\ raw_shape \in DeclaredShapes
    /\ size \in SizeChoices
    /\ shape = <<>>
    /\ ci = 0
    /\ cpc = "shape"
    /\ graph_node = <<>>
    /\ nodes = <<>>
    /\ new_nodes = <<>>
    /\ idx = 0
    /\ i = 1
    /\ pc = "idle"
    /\ calls = 0
    /\ lowered = <<>>
    /\ addresses = {}
    /\ feeds = <<>>
    /\ env = <<>>
    /\ run_i = 1

NextCmp ==
    \/ ResolveDim /\ UNCHANGED <<lowerVars, runVars>>
    \/ PadShape /\ UNCHANGED <<lowerVars, runVars>>
    \/ PrintShape /\ UNCHANGED <<lowerVars, runVars>>

SpecCmp == InitCmp /\ [][NextCmp]_vars


(***************************************************************************)
(* Vocabulary of the properties.                                           *)
(***************************************************************************)
SupportedEquations == {E1, E2}

\* An Einsum node carrying one of the two supported equations.
IsSupportedEinsum(n) ==
    /\ n.op_type = "Einsum"
    /\ \E k \in 1..Len(n.attribute) :
          n.attribute[k].name = "equation" /\ n.attribute[k].s \in SupportedEquations

NotSupported(n) == ~IsSupportedEinsum(n)

\* The synthesized subgraph recorded by r, in the list out.
Segment(out, r) == SubSeq(out, r.start, r.start + r.len - 1)

SegmentPositions(r) == r.start..(r.start + r.len - 1)

\* The positions of out that belong to no synthesized subgraph.
KeptPositions(out) ==
    { k \in 1..Len(out) : \A j \in 1..Len(lowered) : k \notin SegmentPositions(lowered[j]) }

\* The subsequence of s at the positions in P, in order.
RECURSIVE Restrict(_, _, _)
Restrict(s, P, k) ==
    IF k > Len(s) THEN <<>>
    ELSE (IF k \in P THEN <<s[k]>> ELSE <<>>) \o Restrict(s, P, k + 1)

NodeNames(s) == [k \in 1..Len(s) |-> s[k].name]

TensorNames(n) == Range(n.input) \cup Range(n.output)

\* The tensor names a subgraph introduces: every output but the final Reshape's.
IntroducedTensors(seg) ==
    [k \in 1..(Len(seg) - 1) |-> seg[k].output[1]]

NoDuplicates(s) == \A a, b \in 1..Len(s) : a # b => s[a] # s[b]

RECURSIVE Flatten(_)
Flatten(ss) == IF ss = <<>> THEN <<>> ELSE Head(ss) \o Flatten(Tail(ss))

Segments(out) == [j \in 1..Len(lowered) |-> Segment(out, lowered[j])]

\* Every input name is a graph input or the output of an earlier node.
Resolves(s) ==
    \A k \in 1..Len(s) : \A x \in Range(s[k].input) :
        x \in GraphInputs \/ \E j \in 1..(k - 1) : x \in Range(s[j].output)

\* Width in the output of input node k: its replacement's length, or 1.
Width(k) ==
    IF \E j \in 1..Len(lowered) : lowered[j].at = k
    THEN (CHOOSE r \in Range(lowered) : r.at = k).len
    ELSE 1

RECURSIVE SumWidth(_)
SumWidth(k) == IF k = 0 THEN 0 ELSE Width(k) + SumWidth(k - 1)

\* Sum of the replacement lengths recorded in rs.
RECURSIVE SumLen(_)
SumLen(rs) == IF rs = <<>> THEN 0 ELSE Head(rs).len + SumLen(Tail(rs))

Returned == pc = "done"

(***************************************************************************)
(* C1: when lower_einsum returns, the nodes of the output that belong to   *)
(* no synthesized subgraph are exactly the input nodes that are not an     *)
(* Einsum with a supported equation, unchanged and in the same order.      *)
(***************************************************************************)
C1_NonMatchingKept ==
    Returned =>
        Restrict(graph_node, KeptPositions(graph_node), 1) = SelectSeq(nodes, NotSupported)

C1_Witness ==
    /\ Returned
    /\ calls = 1
    /\ Len(lowered) = 1
    /\ Len(nodes) = 2
    /\ \E k \in 1..2 : nodes[k].op_type = "Einsum" /\ NotSupported(nodes[k])

(***************************************************************************)
(* C3: one call on a graph with N supported Einsum nodes emits N           *)
(* subgraphs; over all of them the node names are pairwise distinct, the   *)
(* introduced tensor names are pairwise distinct, and no introduced tensor *)
(* name of one subgraph occurs in another subgraph.                        *)
(***************************************************************************)
C3_SubgraphsDisjoint ==
    Returned =>
        LET segs == Segments(graph_node) IN
        /\ Len(lowered) = Cardinality({k \in 1..Len(nodes) : IsSupportedEinsum(nodes[k])})
        /\ NoDuplicates(NodeNames(Flatten(segs)))
        /\ NoDuplicates(Flatten([j \in 1..Len(segs) |-> IntroducedTensors(segs[j])]))
        /\ \A a, b \in 1..Len(segs) : a # b =>
              Range(IntroducedTensors(segs[a]))
                 \cap UNION { TensorNames(n) : n \in Range(segs[b]) } = {}

C3_Witness ==
    /\ Returned
    /\ Len(lowered) = 2
    /\ lowered[1].id % IdMod = lowered[2].id % IdMod

(***************************************************************************)
(* C4: the output list is the input list with each supported Einsum node   *)
(* replaced, at its own position, by its replacement sequence; its length  *)
(* is input length - matches + sum of the replacement lengths.             *)
(***************************************************************************)
C4_InPlaceSubstitution ==
    Returned =>
        /\ { lowered[j].at : j \in 1..Len(lowered) }
              = { k \in 1..Len(nodes) : IsSupportedEinsum(nodes[k]) }
        /\ Len(graph_node) = (Len(nodes) - Len(lowered)) + SumLen(lowered)
        /\ \A k \in 1..Len(nodes) :
              LET at == SumWidth(k - 1) + 1 IN
              IF IsSupportedEinsum(nodes[k])
              THEN \E j \in 1..Len(lowered) :
                      /\ lowered[j].at = k
                      /\ lowered[j].start = at
                      /\ SubSeq(graph_node, at, at + lowered[j].len - 1)
                            = Replacement(nodes[k], lowered[j].idx, lowered[j].id)
              ELSE graph_node[at] = nodes[k]

C4_Witness ==
    /\ Returned
    /\ Len(nodes) = 2
    /\ Len(lowered) = 1
    /\ lowered[1].at = 2
    /\ NotSupported(nodes[1])
    /\ Len(graph_node) > 30

LoweredEquation(r) == EquationOf(nodes[r.at])[1]

\* The node of seg with the given name.
NodeNamed(seg, nm) == CHOOSE n \in Range(seg) : n.name = nm

\* The node of seg producing the given tensor.
Producer(seg, t) == CHOOSE n \in Range(seg) : t \in Range(n.output)

\* Where a Gather node g of seg takes its extent from: the operand whose
\* Shape it reads and the index held by its Constant.
ExtentSource(seg, g) ==
    << Producer(seg, g.input[1]).input[1],
       Producer(seg, g.input[2]).attribute[1].t_vals[1] >>

GatherOf(r, which) ==
    LET seg == Segment(graph_node, r)
    IN ExtentSource(seg, NodeNamed(seg, Prefix(r.idx, r.id) \o which))

(***************************************************************************)
(* C7 as stated: p is gathered from index 3 of A's shape and c from index  *)
(* 4 of B's shape; q from index 3 of B's shape for E1 and from index 3 of  *)
(* A's shape for E2.                                                       *)
(***************************************************************************)
C7_AsStated ==
    Returned =>
        \A j \in 1..Len(lowered) :
            LET r == lowered[j]
                a_in == nodes[r.at].input[1]
                b_in == nodes[r.at].input[2]
            IN /\ GatherOf(r, "gather_p") = <<a_in, 3>>
               /\ GatherOf(r, "gather_c") = <<b_in, 4>>
               /\ GatherOf(r, "gather_q")
                     = (IF LoweredEquation(r) = E1 THEN <<b_in, 3>> ELSE <<a_in, 3>>)

(***************************************************************************)
(* C7 amended: p is gathered from index 3 of A's shape and c from index 4  *)
(* of B's shape; q from index 3 of B's shape for E1 and from index 4 of    *)
(* A's shape for E2.                                                       *)
(***************************************************************************)
C7_IndexTable ==
    Returned =>
        \A j \in 1..Len(lowered) :
            LET r == lowered[j]
                a_in == nodes[r.at].input[1]
                b_in == nodes[r.at].input[2]
            IN /\ GatherOf(r, "gather_p") = <<a_in, 3>>
               /\ GatherOf(r, "gather_c") = <<b_in, 4>>
               /\ GatherOf(r, "gather_q")
                     = (IF LoweredEquation(r) = E1 THEN <<b_in, 3>> ELSE <<a_in, 4>>)

C7_Witness ==
    /\ Returned
    /\ Len(lowered) = 2
    /\ LoweredEquation(lowered[1]) = E2
    /\ LoweredEquation(lowered[2]) = E1

(***************************************************************************)
(* C8: if every input name of the input graph resolves to a graph input or *)
(* to the output of an earlier node, so does every input name of the       *)
(* returned graph; inside a replacement sequence every input name is one   *)
(* of the node's two original inputs or the output of an earlier node of   *)
(* that sequence, and the original output name is produced by exactly one  *)
(* node of it, the final Reshape.                                          *)
(***************************************************************************)
C8_ResolutionPreserved ==
    (Returned /\ Resolves(nodes)) =>
        /\ Resolves(graph_node)
        /\ \A j \in 1..Len(lowered) :
              LET r == lowered[j]
                  seg == Segment(graph_node, r)
                  n == nodes[r.at]
              IN /\ \A k \in 1..Len(seg) : \A x \in Range(seg[k].input) :
                        \/ x \in {n.input[1], n.input[2]}
                        \/ \E m \in 1..(k - 1) : x \in Range(seg[m].output)
                 /\ { k \in 1..Len(seg) : n.output[1] \in Range(seg[k].output) } = {Len(seg)}
                 /\ seg[Len(seg)].op_type = "Reshape"

\* The same property for the graphs whose supported Einsum nodes all have
\* exactly one output.
C8_SingleOutputResolution ==
    (\A k \in 1..Len(nodes) : IsSupportedEinsum(nodes[k]) => Len(nodes[k].output) = 1)
        => C8_ResolutionPreserved

(***************************************************************************)
(* C9: every node name and tensor name a call introduces differs from      *)
(* every node name and tensor name already present in its input graph.     *)
(***************************************************************************)
C9_GloballyUnique ==
    Returned =>
        \A j \in 1..Len(lowered) :
            LET seg == Segment(graph_node, lowered[j]) IN
            /\ Range(NodeNames(seg)) \cap Range(NodeNames(nodes)) = {}
            /\ Range(IntroducedTensors(seg))
                  \cap (GraphInputs \cup UNION { TensorNames(n) : n \in Range(nodes) }) = {}

(***************************************************************************)
(* C10: a supported Einsum node that does not have exactly two inputs and  *)
(* exactly one output is never lowered: no replacement sequence is emitted *)
(* for it.                                                                 *)
(***************************************************************************)
C10_MalformedRejected ==
    \A j \in 1..Len(lowered) :
        /\ Len(nodes[lowered[j].at].input) = 2
        /\ Len(nodes[lowered[j].at].output) = 1

\* Element of a rank-5 tensor at a 0-based multi-index.
At5(t, m) == t.data[Ravel(m, t.shape) + 1]

RECURSIVE SumOver(_, _)
SumOver(f, n) == IF n = 0 THEN 0 ELSE f[n - 1] + SumOver(f, n - 1)

\* The contraction itself: for E1, A:[h,b,w,p,c], B:[h,b,w,q,c] give
\* [h,b,w,p,q] with sum_c A[..,p,c]*B[..,q,c]; for E2, A:[h,b,w,p,q],
\* B:[h,b,w,q,c] give [h,b,w,p,c] with sum_q A[..,p,q]*B[..,q,c].
DirectContraction(eq, A, B) ==
    LET osh == IF eq = E1
               THEN <<A.shape[1], A.shape[2], A.shape[3], A.shape[4], B.shape[4]>>
               ELSE <<A.shape[1], A.shape[2], A.shape[3], A.shape[4], B.shape[5]>>
        K == A.shape[5]
        term(o) == IF eq = E1
                   THEN [k \in 0..(K - 1) |->
                            At5(A, <<o[1], o[2], o[3], o[4], k>>)
                            * At5(B, <<o[1], o[2], o[3], o[5], k>>)]
                   ELSE [k \in 0..(K - 1) |->
                            At5(A, <<o[1], o[2], o[3], o[4], k>>)
                            * At5(B, <<o[1], o[2], o[3], k, o[5]>>)]
    IN [shape |-> osh,
        data |-> [f \in 1..Prod(osh) |-> SumOver(term(Unravel(f - 1, osh)), K)]]

(***************************************************************************)
(* C2: for one supported Einsum node and rank-5 inputs with agreeing       *)
(* dimensions, evaluating the emitted node sequence binds the node's       *)
(* output name to a tensor with the shape and the values of the direct     *)
(* contraction.                                                            *)
(***************************************************************************)
C2_EqualsContraction ==
    pc = "ran" =>
        /\ "Y" \in DOMAIN env
        /\ env["Y"] = DirectContraction(EquationOf(nodes[1])[1], feeds["A"], feeds["B"])

C2_Witness ==
    /\ pc = "ran"
    /\ EquationOf(nodes[1]) = <<E1>>
    /\ feeds["A"].shape = <<1, 1, 2, 3, 2>>
    /\ feeds["B"].shape = <<1, 1, 2, 4, 2>>
    /\ env["Y"].shape = <<1, 1, 2, 3, 4>>

\* The rule of the claim for the dimension s at 0-based axis k.
DimRule(k, s) ==
    IF s.int THEN s.v
    ELSE IF k = 0 THEN 1
    ELSE IF k = 1 THEN 3
    ELSE IF size > 0 THEN size
    ELSE 256

(***************************************************************************)
(* C6 as stated: the concrete shape has one entry per declared dimension:  *)
(* a concrete integer is kept; a symbolic dimension becomes 1 at axis 0,   *)
(* 3 at axis 1 and --size elsewhere, or 256 when --size is not positive.   *)
(***************************************************************************)
C6_AsStated ==
    cpc = "done" =>
        /\ Len(shape) = Len(raw_shape)
        /\ \A k \in 1..Len(raw_shape) : shape[k] = DimRule(k - 1, raw_shape[k])

(***************************************************************************)
(* C6 amended: the first len(declared) entries of the concrete shape       *)
(* follow that rule, and a declared shape of rank below 4 is padded to     *)
(* rank 4 with the raw --size value (not replaced by 256 when it is not    *)
(* positive).                                                              *)
(***************************************************************************)
C6_ResolvedShape ==
    cpc = "done" =>
        /\ Len(shape) = (IF Len(raw_shape) < 4 THEN 4 ELSE Len(raw_shape))
        /\ \A k \in 1..Len(raw_shape) : shape[k] = DimRule(k - 1, raw_shape[k])
        /\ \A k \in (Len(raw_shape) + 1)..Len(shape) : shape[k] = size

C6_Witness ==
    /\ cpc = "done"
    /\ raw_shape = <<Sym, IntDim(3), Sym, Sym>>
    /\ size = 64
    /\ shape = <<1, 3, 64, 64>>

====
